---- MODULE Spec2Model ----
(***************************************************************************)
(* A model of backend/scraper.py of CommBot: the commentary parser         *)
(* (parse_commentary_from_soup), the scroll loop (scroll_page), the two    *)
(* listing scrapers (scrape_live_matches, scrape_past_matches) and the     *)
(* commentary scraper (scrape_match_commentary).                           *)
(*                                                                         *)
(* Text is a sequence of one-character strings, so that strip, join,       *)
(* substring and length are computed as Python computes them.              *)
(***************************************************************************)
EXTENDS Integers, Sequences, FiniteSets, TLC

VARIABLES
    \* parse_commentary_from_soup
    all_commentary_elements, \* the elements soup.select returned, in page order
    elem_idx,                \* position of the for loop (next element to read)
    parsed_entries,          \* the list the loop appends to
    entry_src,               \* history: index of the element each entry came from
    parse_result,            \* the returned list
    ppc,                     \* "start", "loop", "done"
    \* scroll_page
    last_height, scroll_attempts_no_change,
    iterations,              \* history: loop iterations begun
    changes,                 \* history: iterations whose re-read height differed
    spc,                     \* "idle", "init", "loop", "done", "aborted", "raised"
    \* scrape_live_matches, scrape_past_matches
    listing,                 \* "live" or "past": which of the two runs
    match_link_tags,         \* the anchors find_all returned, in page order
    link_idx,                \* position of the for loop (next anchor to read)
    processed_urls, live_matches, past_matches_urls,
    live_src,                \* history: index of the anchor each live URL came from
    listing_result,          \* the returned list
    lpc,                     \* "idle", "start", "wait", "scroll", "source", "loop",
                             \* "returned", "raised"
    \* the browser session
    ops,                     \* the session operations issued so far, in order,
                             \* each with its outcome
    \* scrape_match_commentary
    innings_tabs,            \* number of tabs found at discovery
    current_tabs,            \* number of tabs found by the re-query
    commentary_data,
    inning_index,            \* the loop variable of the innings loop
    current_page_source,             \* the markup line 309 read (<<>> before that)
    commentary_result,       \* the returned list
    cpc,                     \* "idle", "nav", "wait_any", "find_tabs", "inning",
                             \* "refind", "tab_text", "wait_clickable", "click",
                             \* "wait_container", "wait_default", "source",
                             \* "returned"
    \* main.py: the application and its requests
    driver, llm,             \* the globals: is the driver, the model, there
    rpc,                     \* per request: "idle", "ready", "awaiting",
                             \* "entered", "scraping", "after", "responding",
                             \* "done"
    issued,                  \* per request: session operations issued
    loop_thread,             \* the request whose code the event loop's thread
                             \* runs, 0 when it runs none
    session_log              \* history: who used the session, and who returned

parseVars == <<all_commentary_elements, elem_idx, parsed_entries, entry_src,
               parse_result, ppc>>
scrollVars == <<last_height, scroll_attempts_no_change, iterations, changes, spc>>
listVars == <<listing, match_link_tags, link_idx, processed_urls, live_matches,
              past_matches_urls, live_src, listing_result, lpc>>
commVars == <<innings_tabs, current_tabs, commentary_data, inning_index,
              current_page_source,
              commentary_result, cpc>>
serverVars == <<driver, llm, rpc, issued, loop_thread, session_log>>
vars == <<parseVars, scrollVars, listVars, commVars, ops, serverVars>>

(***************************************************************************)
(* Bounds of the model.                                                    *)
(***************************************************************************)
MaxElems == 2       \* commentary elements on a drawn page
MaxHeight == 3      \* document heights are 1..MaxHeight
MaxIters == 7       \* scroll iterations explored
MaxAnchors == 2     \* anchors on a drawn listing page
MaxTabs == 2        \* innings tabs a find_elements call returns
MaxRequests == 3    \* concurrent requests to the application
MaxSessionOps == 2  \* session operations one scraper invocation issues

(***************************************************************************)
(* Text helpers.                                                           *)
(***************************************************************************)
Whitespace == {" ", "\n", "\t"}

RECURSIVE LStrip(_, _)
LStrip(s, chars) ==
    IF s # <<>> /\ Head(s) \in chars THEN LStrip(Tail(s), chars) ELSE s

RECURSIVE RStrip(_, _)
RStrip(s, chars) ==
    IF s # <<>> /\ s[Len(s)] \in chars
    THEN RStrip(SubSeq(s, 1, Len(s) - 1), chars)
    ELSE s

\* str.strip(chars): drops from both ends every character that is in chars
StripChars(s, chars) == RStrip(LStrip(s, chars), chars)

\* str.strip()
StripWs(s) == StripChars(s, Whitespace)

\* sub in s
Contains(s, sub) ==
    \E k \in 0..(Len(s) - Len(sub)) : SubSeq(s, k + 1, k + Len(sub)) = sub

RECURSIVE Join(_, _)
\* sep.join(parts)
Join(parts, sep) ==
    IF parts = <<>> THEN <<>>
    ELSE IF Len(parts) = 1 THEN parts[1]
    ELSE parts[1] \o sep \o Join(Tail(parts), sep)

Reverse(s) == [k \in 1..Len(s) |-> s[Len(s) + 1 - k]]

NonEmpty(p) == p # <<>>

(***************************************************************************)
(* Commentary markup: an event element holds four optional sub-elements,   *)
(* each a list of text nodes.  raises marks an element whose reading       *)
(* throws inside the loop's try.                                           *)
(***************************************************************************)
Absent == [present |-> FALSE, nodes |-> <<>>]
Sub(s) == [present |-> TRUE, nodes |-> <<s>>]
Sub2(s, t) == [present |-> TRUE, nodes |-> <<s, t>>]

Event(o, r, st, tx) ==
    [over |-> o, run |-> r, start |-> st, text |-> tx, raises |-> FALSE]

T_6 == <<"6">>
T_5_6 == <<"5", ".", "6">>
T_5_5 == <<"5", ".", "5">>
T_4W == <<"4", " ", "(", "W", ")">>
T_5_6_ws == <<" ", "5", ".", "6", "\n">>
T_Six == <<"S", "i", "x">>
T_Bumrah == <<"B", "u", "m", "r", "a", "h", " ", "t", "o", " ", "K", "o", "h", "l", "i">>
T_SIX == <<"S", "I", "X", "!", " ", "O", "v", "e", "r", " ", "l", "o", "n", "g", "-", "o", "n">>
T_dot == <<"d", "o", "t", " ", "b", "a", "l", "l">>
T_single == <<"s", "i", "n", "g", "l", "e">>
T_wides == <<"w", "i", "d", "e", "s">>
T_edged == <<"e", "d", "g", "e", "d", " ", "-">>
T_dash == <<"-">>
T_blank == <<" ", "\n">>

OverLabels == {Absent, Sub(<<>>), Sub(T_5_6), Sub(T_4W)}
RunLabels == {Absent, Sub(<<>>), Sub(T_Six)}
Descriptions == {Absent, Sub(<<>>), Sub(T_blank), Sub(T_wides), Sub(T_single), Sub(T_edged)}

\* Scenario A, newest first
ScenarioA ==
    << Event(Sub(T_6), Sub(T_Six), Sub(T_Bumrah), Sub(T_SIX)),
       Event(Sub(T_5_6), Absent, Sub(T_Bumrah), Sub(T_dot)),
       Event(Sub(T_5_5), Absent, Sub(T_Bumrah), Sub(T_single)) >>

Elements ==
    \* every over label against every run label
    { Event(o, r, Sub(T_Bumrah), Sub(T_dot)) : o \in OverLabels, r \in RunLabels }
    \* every description, with and without the other fields
    \cup { Event(Absent, Absent, st, tx) : st \in {Absent, Sub(T_Bumrah)}, tx \in Descriptions }
    \cup { Event(Sub(T_6), Sub(T_Six), Absent, tx) : tx \in Descriptions }
    \cup { ScenarioA[k] : k \in 1..3 }
    \* surrounding whitespace, several text nodes, a dash as the run label
    \cup { Event(Sub(T_5_6_ws), Sub(T_Six), Absent, Sub2(<<" ", "d", "o", "t">>, <<" ", "b", "a", "l", "l", " ">>)),
           Event(Absent, Sub(T_dash), Absent, Sub(T_single)) }
    \* an element whose reading throws
    \cup { [Event(Sub(T_5_6), Sub(T_Six), Sub(T_Bumrah), Sub(T_dot)) EXCEPT !.raises = TRUE] }

RECURSIVE SeqsUpTo(_, _)
SeqsUpTo(S, n) ==
    IF n = 0 THEN {<<>>}
    ELSE LET shorter == SeqsUpTo(S, n - 1)
         IN shorter \cup { Append(p, e) : p \in {q \in shorter : Len(q) = n - 1}, e \in S }

Pages == SeqsUpTo(Elements, MaxElems) \cup {ScenarioA}

(***************************************************************************)
(* parse_commentary_from_soup                                              *)
(***************************************************************************)
RECURSIVE ConcatStripped(_)
ConcatStripped(nodes) ==
    IF nodes = <<>> THEN <<>>
    ELSE StripWs(Head(nodes)) \o ConcatStripped(Tail(nodes))

\* x.get_text(strip=True) if x else ""
GetText(sub) == IF sub.present THEN ConcatStripped(sub.nodes) ELSE <<>>

Sep == <<" ", "-", " ">>
StripSet == {" ", "-"}
MinEntryLen == 5

\* the conditions of the if and of the elif of the field merge
FirstBranch(cmd_over_text) ==
    cmd_over_text # <<>> /\ ~Contains(cmd_over_text, <<"(">>)
SecondBranch(cmd_over_text) == cmd_over_text # <<>>

\* the three branches of the field merge
OverInfo(cmd_over_text, ov_run_text) ==
    IF FirstBranch(cmd_over_text)
    THEN cmd_over_text \o <<" ", "(">> \o ov_run_text \o <<")">>
    ELSE IF SecondBranch(cmd_over_text)
    THEN cmd_over_text
    ELSE ov_run_text

\* lines 206-207: the non-empty ones of over_info, the prefix text and the
\* description, joined by " - "
JoinedParts(element) ==
    LET over_info == OverInfo(GetText(element.over), GetText(element.run))
        parts == <<over_info, GetText(element.start), GetText(element.text)>>
    IN Join(SelectSeq(parts, NonEmpty), Sep)

\* full_entry_text of an element, as lines 206-210 compute it
FullEntryText(element) == StripChars(JoinedParts(element), StripSet)

\* variant: an entry of six characters is dropped too
LongEnough_AboveSix(full_entry_text) == Len(full_entry_text) > MinEntryLen + 1

\* variant: the length test off by one
LongEnough_AtLeast(full_entry_text) == Len(full_entry_text) >= MinEntryLen

LongEnough(full_entry_text) == Len(full_entry_text) > MinEntryLen

\* variant: the description is not tested
HasDescription_Always(element) == TRUE

\* if commentary_text:
HasDescription(element) == GetText(element.text) # <<>>

\* the element's entry is appended
Appends(element) ==
    /\ ~element.raises
    /\ HasDescription(element)
    /\ LongEnough(FullEntryText(element))

\* variant: an exception while reading an element ends the extraction with
\* nothing
ParseElement_AbortOnRaise(entries, element) ==
    IF element.raises THEN <<>>
    ELSE IF Appends(element) THEN Append(entries, FullEntryText(element)) ELSE entries

\* the loop body: parsed_entries after reading one element
ParseElement(entries, element) ==
    IF Appends(element) THEN Append(entries, FullEntryText(element)) ELSE entries

\* variant: the list is returned as built
ReturnOrder_AsBuilt(entries) == entries

\* the value returned after the loop
ReturnOrder(entries) == Reverse(entries)

ParseStart ==
    /\ ppc = "start"
    /\ IF all_commentary_elements = <<>>
       THEN parse_result' = <<>> /\ ppc' = "done"
       ELSE parse_result' = parse_result /\ ppc' = "loop"
    /\ UNCHANGED <<all_commentary_elements, elem_idx, parsed_entries, entry_src>>
    /\ UNCHANGED <<scrollVars, listVars, commVars, ops, serverVars>>

ParseNext ==
    /\ ppc = "loop"
    /\ elem_idx <= Len(all_commentary_elements)
    /\ LET element == all_commentary_elements[elem_idx] IN
        /\ parsed_entries' = ParseElement(parsed_entries, element)
        /\ entry_src' = IF Len(parsed_entries') > Len(parsed_entries)
                        THEN Append(entry_src, elem_idx) ELSE entry_src
    /\ elem_idx' = elem_idx + 1
    /\ UNCHANGED <<all_commentary_elements, parse_result, ppc>>
    /\ UNCHANGED <<scrollVars, listVars, commVars, ops, serverVars>>

ParseReturn ==
    /\ ppc = "loop"
    /\ elem_idx > Len(all_commentary_elements)
    /\ parse_result' = ReturnOrder(parsed_entries)
    /\ ppc' = "done"
    /\ UNCHANGED <<all_commentary_elements, elem_idx, parsed_entries, entry_src>>
    /\ UNCHANGED <<scrollVars, listVars, commVars, ops, serverVars>>

ScrollIdle ==
    /\ last_height = 0 /\ scroll_attempts_no_change = 0
    /\ iterations = 0 /\ changes = 0 /\ spc = "idle"

ParseIdle ==
    /\ all_commentary_elements = <<>> /\ elem_idx = 1 /\ parsed_entries = <<>>
    /\ entry_src = <<>> /\ parse_result = <<>> /\ ppc = "idle"

ListIdle ==
    /\ listing = "live" /\ match_link_tags = <<>> /\ link_idx = 1
    /\ processed_urls = {} /\ live_matches = <<>> /\ past_matches_urls = {}
    /\ live_src = <<>> /\ listing_result = <<>> /\ lpc = "idle"

CommIdle ==
    /\ innings_tabs = 0 /\ current_tabs = 0 /\ commentary_data = <<>>
    /\ inning_index = 0
    /\ current_page_source = <<>>
    /\ commentary_result = <<>> /\ cpc = "idle"

Requests == 1..MaxRequests

ServerIdle ==
    /\ driver = TRUE /\ llm = TRUE
    /\ rpc = [r \in Requests |-> "idle"]
    /\ issued = [r \in Requests |-> 0]
    /\ loop_thread = 0 /\ session_log = <<>>

InitParse ==
    /\ ServerIdle
    /\ all_commentary_elements \in Pages
    /\ elem_idx = 1
    /\ parsed_entries = <<>>
    /\ entry_src = <<>>
    /\ parse_result = <<>>
    /\ ppc = "start"
    /\ ScrollIdle
    /\ ListIdle
    /\ CommIdle
    /\ ops = <<>>

NextParse == ParseStart \/ ParseNext \/ ParseReturn

SpecParse == InitParse /\ [][NextParse]_vars

(***************************************************************************)
(* Properties of parse_commentary_from_soup (SpecParse).                   *)
(***************************************************************************)
E_A1 == <<"6", " ", "(", "S", "i", "x", ")", " ", "-", " ", "B", "u", "m", "r", "a", "h", " ", "t", "o", " ", "K", "o", "h", "l", "i", " ", "-", " ", "S", "I", "X", "!", " ", "O", "v", "e", "r", " ", "l", "o", "n", "g", "-", "o", "n">>
E_A2 == <<"5", ".", "6", " ", "-", " ", "B", "u", "m", "r", "a", "h", " ", "t", "o", " ", "K", "o", "h", "l", "i", " ", "-", " ", "d", "o", "t", " ", "b", "a", "l", "l">>
E_A3 == <<"5", ".", "5", " ", "-", " ", "B", "u", "m", "r", "a", "h", " ", "t", "o", " ", "K", "o", "h", "l", "i", " ", "-", " ", "s", "i", "n", "g", "l", "e">>

\* the elements read so far whose entry was appended, in page order
SourceOf(k) == all_commentary_elements[entry_src[k]]
Read(j) == j < elem_idx /\ ppc \in {"loop", "done"}

\* C1: the returned entries are those of the retained elements in exactly the
\* reverse of page order, and the last entry comes from the first retained
\* element of the page; the result is a function of the markup.
C1_ReverseOfPageOrder ==
    ppc = "done" =>
        LET n == Len(parse_result)
            retained == SelectSeq(all_commentary_elements, Appends)
        IN /\ n = Len(entry_src)
           /\ n = Len(retained)
           /\ \A k \in 1..n :
                /\ parse_result[k] = FullEntryText(SourceOf(n + 1 - k))
                /\ parse_result[k] = FullEntryText(retained[n + 1 - k])
           /\ \A j, k \in 1..n : j < k => entry_src[j] < entry_src[k]
           /\ n > 0 =>
                /\ parse_result[n] = FullEntryText(retained[1])
                /\ \A j \in 1..(entry_src[1] - 1) : ~Appends(all_commentary_elements[j])

\* a page of two retained elements with different entries has been parsed
C1_Witness ==
    /\ ppc = "done"
    /\ Len(parse_result) = 2
    /\ parse_result[1] # parse_result[2]
    /\ entry_src = <<1, 2>>

\* C2: exactly one branch of the field merge applies to every element, and no
\* returned entry contains an empty "()" pair.
C2_MergeTotalNoEmptyParens ==
    /\ \A j \in 1..Len(all_commentary_elements) :
          LET o == GetText(all_commentary_elements[j].over)
              b1 == FirstBranch(o)
              b2 == ~FirstBranch(o) /\ SecondBranch(o)
              b3 == ~FirstBranch(o) /\ ~SecondBranch(o)
          IN Cardinality({b \in {<<1, b1>>, <<2, b2>>, <<3, b3>>} : b[2]}) = 1
    /\ ppc = "done" =>
          \A k \in 1..Len(parse_result) : ~Contains(parse_result[k], <<"(", ")">>)

\* C3 as stated: no appended entry comes from an element whose joined text is
\* 6 characters or shorter.
C3_SixOrShorterNeverIncluded ==
    \A k \in 1..Len(entry_src) : Len(FullEntryText(SourceOf(k))) > 6

\* C3 amended: an element whose joined text is 5 characters or shorter after
\* trimming is never included (one of exactly 6 characters is).
C3_FiveOrShorterNeverIncluded ==
    /\ \A k \in 1..Len(entry_src) : Len(FullEntryText(SourceOf(k))) > 5
    /\ \A k \in 1..Len(parsed_entries) : Len(parsed_entries[k]) > 5
    /\ ppc = "done" =>
          /\ Len(parse_result) = Len(entry_src)
          /\ \A k \in 1..Len(parse_result) : Len(parse_result[k]) > 5

\* an element with a description and a joined text of exactly 5 characters
\* has been read and dropped
C3_Witness ==
    \E j \in 1..Len(all_commentary_elements) :
        /\ Read(j)
        /\ HasDescription(all_commentary_elements[j])
        /\ Len(FullEntryText(all_commentary_elements[j])) = 5
        /\ \A k \in 1..Len(entry_src) : entry_src[k] # j

\* C4: an element whose description sub-element is missing or has empty text
\* is never included, whatever its other fields are.
C4_NoDescriptionNeverIncluded ==
    /\ \A k \in 1..Len(entry_src) :
          /\ SourceOf(k).text.present
          /\ GetText(SourceOf(k).text) # <<>>
    /\ Len(parsed_entries) = Len(entry_src)
    /\ ppc = "done" => Len(parse_result) = Len(entry_src)

\* an element with over label, run label and prefix but no description has
\* been read, next to one that was kept
C4_Witness ==
    /\ ppc = "done"
    /\ Len(parse_result) = 1
    /\ \E j \in 1..Len(all_commentary_elements) :
          /\ ~all_commentary_elements[j].text.present
          /\ GetText(all_commentary_elements[j].over) # <<>>
          /\ GetText(all_commentary_elements[j].run) # <<>>

\* C5: Scenario A yields exactly the three entries, oldest first.
C5_ScenarioA ==
    (all_commentary_elements = ScenarioA /\ ppc = "done") =>
        parse_result = <<E_A3, E_A2, E_A1>>

(***************************************************************************)
(* The browser session.  An operation ends "ok" or raises: "timeout"       *)
(* (TimeoutException), "nosuch" (NoSuchElementException), "stale"          *)
(* (StaleElementReferenceException), "intercepted"                         *)
(* (ElementClickInterceptedException), "wde" (another WebDriverException), *)
(* or "other" (an exception that is no WebDriverException).                *)
(***************************************************************************)
WebDriverExceptions == {"timeout", "nosuch", "stale", "intercepted", "wde"}
Raises == WebDriverExceptions \cup {"other"}

\* is the outcome caught by "except WebDriverException"
IsWebDriverException(outcome) == outcome \in WebDriverExceptions

\* one session operation and how it ended
Op(name, outcome) == [op |-> name, out |-> outcome]

Outcomes == {"ok"} \cup Raises

\* variant: a failed driver.get is tried once more
NavigationOps_Retry(outcome) ==
    IF outcome = "ok" THEN <<Op("get", "ok")>>
    ELSE <<Op("get", outcome), Op("get", outcome)>>

\* lines 30-31: the session operations of safe_get, one driver.get whatever
\* its outcome
NavigationOps(outcome) == <<Op("get", outcome)>>

\* variant: a failed navigation is reported as a success
SafeGet_AlwaysTrue(outcome) ==
    IF outcome = "ok" \/ IsWebDriverException(outcome) THEN "true" ELSE "raise"

\* safe_get: True, False, or the exception it does not catch
SafeGet(outcome) ==
    IF outcome = "ok" THEN "true"
    ELSE IF IsWebDriverException(outcome) THEN "false"
    ELSE "raise"

(***************************************************************************)
(* scroll_page                                                             *)
(***************************************************************************)
MAX_SCROLL_ATTEMPTS_WITHOUT_CHANGE == 3
Heights == 1..MaxHeight
ScriptOutcomes == {"ok", "wde", "other"}

\* variant: one more unchanged read is needed
StallLimitReached_Above(attempts) == attempts > MAX_SCROLL_ATTEMPTS_WITHOUT_CHANGE

\* if scroll_attempts_no_change >= MAX_SCROLL_ATTEMPTS_WITHOUT_CHANGE
StallLimitReached(attempts) == attempts >= MAX_SCROLL_ATTEMPTS_WITHOUT_CHANGE

\* line 39: the first height read, outside the try
ScrollReadHeight ==
    /\ spc = "init"
    /\ \/ \E h \in Heights :
             /\ last_height' = h
             /\ spc' = "loop"
             /\ ops' = Append(ops, Op("script", "ok"))
       \/ \E outcome \in ScriptOutcomes \ {"ok"} :
             /\ last_height' = last_height
             /\ spc' = "raised"
             /\ ops' = Append(ops, Op("script", outcome))
    /\ scroll_attempts_no_change' = 0
    /\ UNCHANGED <<iterations, changes, parseVars, listVars, commVars, serverVars>>

\* variant: the counter is not reset when the height changes
NextAttempts_NoReset(attempts, new_height, last) ==
    IF new_height = last THEN attempts + 1 ELSE attempts

\* lines 46-47, 52-53: scroll_attempts_no_change after a height re-read
NextAttempts(attempts, new_height, last) ==
    IF new_height = last THEN attempts + 1 ELSE 0

\* variant: the loop gives up after five iterations
WhileCondition_Ceiling(n) == n < 5

\* line 41: while True, whatever the number n of iterations done
WhileCondition(n) == n >= 0

\* lines 41-54: an iteration in which both scripts succeed
ScrollIteration ==
    /\ spc = "loop"
    /\ iterations < MaxIters
    /\ IF ~WhileCondition(iterations)
       THEN /\ spc' = "done"
            /\ UNCHANGED <<last_height, scroll_attempts_no_change, iterations,
                           changes, ops>>
       ELSE /\ \E new_height \in Heights :
                 LET attempts == NextAttempts(scroll_attempts_no_change,
                                              new_height, last_height)
                     stop == new_height = last_height /\ StallLimitReached(attempts)
                 IN /\ scroll_attempts_no_change' = attempts
                    /\ changes' = IF new_height = last_height
                                  THEN changes ELSE changes + 1
                    \* the break on line 51 skips the assignment on line 54
                    /\ last_height' = IF stop THEN last_height ELSE new_height
                    /\ spc' = IF stop THEN "done" ELSE "loop"
            /\ iterations' = iterations + 1
            /\ ops' = ops \o <<Op("script", "ok"), Op("script", "ok")>>
    /\ UNCHANGED <<parseVars, listVars, commVars, serverVars>>

\* lines 55-58: the scroll command or the re-read raises
ScrollError ==
    /\ spc = "loop"
    /\ iterations < MaxIters
    /\ \E failing \in 1..2, outcome \in ScriptOutcomes \ {"ok"} :
         /\ ops' = ops \o [k \in 1..failing |->
                              Op("script", IF k = failing THEN outcome ELSE "ok")]
         /\ spc' = IF IsWebDriverException(outcome) THEN "aborted" ELSE "raised"
    /\ iterations' = iterations + 1
    /\ UNCHANGED <<last_height, scroll_attempts_no_change, changes, parseVars, listVars,
                   commVars, serverVars>>

ScrollPage == ScrollReadHeight \/ ScrollIteration \/ ScrollError

InitScroll ==
    /\ ServerIdle
    /\ ParseIdle
    /\ ListIdle
    /\ CommIdle
    /\ last_height = 0
    /\ scroll_attempts_no_change = 0
    /\ iterations = 0
    /\ changes = 0
    /\ spc = "init"
    /\ ops = <<>>

NextScroll == ScrollReadHeight \/ ScrollIteration \/ ScrollError

SpecScroll == InitScroll /\ [][NextScroll]_vars

(***************************************************************************)
(* Listing markup.  An href is absent, absolute (scheme and host given) or *)
(* rooted (scheme and host empty); its path is a sequence of segments.  An *)
(* anchor carries its ancestors, nearest first, each with its class tokens *)
(* and its text.  raises marks an anchor whose reading throws.             *)
(***************************************************************************)
BASE_URL == [scheme |-> "https", host |-> "www.iplt20.com"]

NoHref == [present |-> FALSE, scheme |-> "", host |-> "", path |-> <<>>]
Rooted(path) == [present |-> TRUE, scheme |-> "", host |-> "", path |-> path]
Absolute(scheme, host, path) ==
    [present |-> TRUE, scheme |-> scheme, host |-> host, path |-> path]

DigitSegments == {"2024", "1", "2"}

\* re.compile(r'/match/\d+/\d+') searched in the href
HrefMatches(href) ==
    /\ href.present
    /\ \E k \in 1..(Len(href.path) - 2) :
          /\ href.path[k] = "match"
          /\ href.path[k + 1] \in DigitSegments
          /\ href.path[k + 2] \in DigitSegments

\* variant: the href is used as written
UrlJoin_AsWritten(base, href) ==
    [scheme |-> href.scheme, host |-> href.host, path |-> href.path]

\* urljoin(BASE_URL, match_url)
UrlJoin(base, href) ==
    IF href.scheme # ""
    THEN [scheme |-> href.scheme, host |-> href.host, path |-> href.path]
    ELSE [scheme |-> base.scheme, host |-> base.host, path |-> href.path]

UpperCase == <<"A", "B", "C", "D", "E", "F", "G", "H", "I", "J", "K", "L", "M",
               "N", "O", "P", "Q", "R", "S", "T", "U", "V", "W", "X", "Y", "Z">>
LowerCase == <<"a", "b", "c", "d", "e", "f", "g", "h", "i", "j", "k", "l", "m",
               "n", "o", "p", "q", "r", "s", "t", "u", "v", "w", "x", "y", "z">>

LowerChar(c) ==
    IF \E k \in 1..26 : UpperCase[k] = c
    THEN LowerCase[CHOOSE k \in 1..26 : UpperCase[k] = c]
    ELSE c

\* str.lower()
Lower(s) == [k \in 1..Len(s) |-> LowerChar(s[k])]

T_live == <<"l", "i", "v", "e">>
T_LIVE == <<"L", "I", "V", "E">>
T_status_live == <<"s", "t", "a", "t", "u", "s", "-", "-", "l", "i", "v", "e">>
T_delivery == <<"d", "e", "l", "i", "v", "e", "r", "y">>
T_card == <<"c", "a", "r", "d">>
T_RCBvMI == <<"R", "C", "B", " ", "v", " ", "M", "I">>
T_LiveNow == <<"L", "i", "v", "e", " ", "n", "o", "w">>
T_Result == <<"R", "e", "s", "u", "l", "t">>

Container(classes, text) == [classes |-> classes, text |-> text]

Anchor(href, ancestors) == [href |-> href, ancestors |-> ancestors, raises |-> FALSE]

\* re.compile(r'(live|status--live)', re.IGNORECASE) searched in a class token
ClassPattern(token) ==
    \/ Contains(Lower(token), T_live)
    \/ Contains(Lower(token), T_status_live)

\* the filter of find_parent(class_=...)
MatchesClassPattern(container) == \E token \in container.classes : ClassPattern(token)

\* line 100: the further check on the container found
TrulyLive(container) ==
    \/ T_live \in container.classes
    \/ Contains(Lower(container.text), T_live)

\* variant: every anchor counts as live
IsLive_Always(link_tag) == TRUE

\* lines 95-101: is_live, decided on the nearest ancestor find_parent returns
IsLive(link_tag) ==
    LET matching == SelectSeq(link_tag.ancestors, MatchesClassPattern)
    IN matching # <<>> /\ TrulyLive(matching[1])

MatchHrefs ==
    { Rooted(<<"match", "2024", "1">>),
      Absolute("https", "www.iplt20.com", <<"match", "2024", "1">>),
      Rooted(<<"match", "2024", "2">>),
      Absolute("https", "other.example", <<"match", "2024", "1">>) }

Plain == <<Container({T_card}, T_RCBvMI)>>
StatusLive(text) == <<Container({T_status_live}, text)>>

AncestorChains ==
    { Plain,
      StatusLive(T_RCBvMI),
      StatusLive(T_LiveNow),
      <<Container({T_card, T_live}, T_RCBvMI)>>,
      \* the nearest matching ancestor is not the one that says live
      <<Container({T_delivery}, T_Result), Container({T_live}, T_LiveNow)>>,
      \* text alone, on a container whose class does not match
      <<Container({T_card}, T_LIVE)>>,
      \* no ancestor at all
      <<>> }

AllAnchors ==
    { Anchor(h, a) : h \in MatchHrefs, a \in AncestorChains }
    \cup { Anchor(h, StatusLive(T_LiveNow)) : h \in {NoHref, Rooted(<<"teams", "1">>)} }
    \cup { [Anchor(Rooted(<<"match", "2024", "2">>), StatusLive(T_LiveNow)) EXCEPT !.raises = TRUE] }

\* Scenario B: one anchor under a status--live container, one under a plain one
ScenarioB(text) ==
    << Anchor(Rooted(<<"match", "2024", "1">>), StatusLive(text)),
       Anchor(Rooted(<<"match", "2024", "2">>), Plain) >>

ListingPages == SeqsUpTo(AllAnchors, MaxAnchors)

\* soup.find_all('a', href=re.compile(...))
HasMatchHref(link_tag) == HrefMatches(link_tag.href)
FindAll(page) == SelectSeq(page, HasMatchHref)

(***************************************************************************)
(* scrape_live_matches and scrape_past_matches: the loop over the anchors  *)
(***************************************************************************)
\* variant: nothing is ever taken as processed
AlreadyProcessed_Never(absolute_url, processed) == FALSE

\* if absolute_url in processed_urls
AlreadyProcessed(absolute_url, processed) == absolute_url \in processed

\* list(past_matches_urls): the elements of the set, in an order Python
\* does not fix
ListsOf(S) ==
    { q \in [1..Cardinality(S) -> S] : \A j, k \in 1..Cardinality(S) : j # k => q[j] # q[k] }

\* the value an exception handler of the listing returns
ReturnedList == IF listing = "live" THEN {live_matches} ELSE ListsOf(past_matches_urls)

\* variant: only the URL of an anchor taken as live is marked processed
MarksProcessed_OnlyLive(is_live) == is_live

\* line 109: processed_urls.add(absolute_url), whatever is_live is
MarksProcessed(is_live) == TRUE

\* lines 84-109: one anchor of the live listing
LiveNext ==
    /\ lpc = "loop" /\ listing = "live"
    /\ link_idx <= Len(match_link_tags)
    /\ ~match_link_tags[link_idx].raises
    /\ LET link_tag == match_link_tags[link_idx]
           absolute_url == UrlJoin(BASE_URL, link_tag.href)
       IN IF ~link_tag.href.present \/ AlreadyProcessed(absolute_url, processed_urls)
          THEN UNCHANGED <<processed_urls, live_matches, live_src>>
          ELSE /\ processed_urls' = IF MarksProcessed(IsLive(link_tag))
                                     THEN processed_urls \cup {absolute_url}
                                     ELSE processed_urls
               /\ IF IsLive(link_tag)
                  THEN /\ live_matches' = Append(live_matches, absolute_url)
                       /\ live_src' = Append(live_src, link_idx)
                  ELSE UNCHANGED <<live_matches, live_src>>
    /\ link_idx' = link_idx + 1
    /\ UNCHANGED <<listing, match_link_tags, past_matches_urls, listing_result, lpc>>
    /\ UNCHANGED <<parseVars, scrollVars, commVars, ops, serverVars>>

\* lines 144-150: one anchor of the past listing
PastNext ==
    /\ lpc = "loop" /\ listing = "past"
    /\ link_idx <= Len(match_link_tags)
    /\ ~match_link_tags[link_idx].raises
    /\ LET link_tag == match_link_tags[link_idx]
           absolute_url == UrlJoin(BASE_URL, link_tag.href)
       IN past_matches_urls' = IF link_tag.href.present
                               THEN past_matches_urls \cup {absolute_url}
                               ELSE past_matches_urls
    /\ link_idx' = link_idx + 1
    /\ UNCHANGED <<listing, match_link_tags, processed_urls, live_matches, live_src,
                   listing_result, lpc>>
    /\ UNCHANGED <<parseVars, scrollVars, commVars, ops, serverVars>>

\* lines 113-117, 154-158: reading an anchor throws inside the try, the
\* handler logs and the function returns what it has
ListNextRaises ==
    /\ lpc = "loop"
    /\ link_idx <= Len(match_link_tags)
    /\ match_link_tags[link_idx].raises
    /\ listing_result' \in ReturnedList
    /\ lpc' = "returned"
    /\ UNCHANGED <<listing, match_link_tags, link_idx, processed_urls, live_matches,
                   past_matches_urls, live_src>>
    /\ UNCHANGED <<parseVars, scrollVars, commVars, ops, serverVars>>

\* lines 116-117, 157-158: the loop is over
ListReturn ==
    /\ lpc = "loop"
    /\ link_idx > Len(match_link_tags)
    /\ listing_result' \in ReturnedList
    /\ lpc' = "returned"
    /\ UNCHANGED <<listing, match_link_tags, link_idx, processed_urls, live_matches,
                   past_matches_urls, live_src>>
    /\ UNCHANGED <<parseVars, scrollVars, commVars, ops, serverVars>>

\* the state at lines 82 and 142, for every page and both listings
InitListingParse ==
    /\ ServerIdle
    /\ ParseIdle
    /\ ScrollIdle
    /\ CommIdle
    /\ listing \in {"live", "past"}
    /\ \E page \in ListingPages \cup {ScenarioB(T_RCBvMI), ScenarioB(T_LiveNow)} :
          match_link_tags = FindAll(page)
    /\ link_idx = 1
    /\ processed_urls = {}
    /\ live_matches = <<>>
    /\ past_matches_urls = {}
    /\ live_src = <<>>
    /\ listing_result = <<>>
    /\ lpc = "loop"
    /\ ops = <<>>

NextListingParse == LiveNext \/ PastNext \/ ListNextRaises \/ ListReturn

SpecListingParse == InitListingParse /\ [][NextListingParse]_vars

(***************************************************************************)
(* scrape_live_matches and scrape_past_matches: from the navigation on     *)
(***************************************************************************)
\* the pages driver.page_source may hold
RenderedListings ==
    { <<>>, ScenarioB(T_LiveNow), ScenarioB(T_RCBvMI),
      << Anchor(Rooted(<<"match", "2024", "1">>), StatusLive(T_LiveNow)),
         Anchor(Absolute("https", "www.iplt20.com", <<"match", "2024", "1">>),
                StatusLive(T_LiveNow)) >>,
      << Anchor(Rooted(<<"match", "2024", "1">>), StatusLive(T_LiveNow)),
         [Anchor(Rooted(<<"match", "2024", "2">>), StatusLive(T_LiveNow))
              EXCEPT !.raises = TRUE],
         Anchor(Rooted(<<"match", "2024", "2">>), StatusLive(T_LiveNow)) >> }

\* the listing returns by a handler or by the return [] after safe_get
ListReturns(values) ==
    /\ listing_result' \in values
    /\ lpc' = "returned"

\* lines 68-69, 123-124: navigation, outside the try
ListNavigate ==
    /\ lpc = "start"
    /\ \E outcome \in Outcomes :
         /\ ops' = ops \o NavigationOps(outcome)
         /\ IF SafeGet(outcome) = "true"
            THEN lpc' = "wait" /\ UNCHANGED listing_result
            ELSE IF SafeGet(outcome) = "false"
            THEN ListReturns({<<>>})
            \* the exception leaves the function
            ELSE lpc' = "raised" /\ UNCHANGED listing_result
    /\ UNCHANGED <<listing, match_link_tags, link_idx, processed_urls, live_matches,
                   past_matches_urls, live_src>>
    /\ UNCHANGED <<parseVars, scrollVars, commVars, serverVars>>

\* lines 73-77, 111-117: the wait for a match anchor, then the call of
\* scroll_page
ListWait ==
    /\ lpc = "wait"
    /\ \E outcome \in Outcomes :
         /\ ops' = Append(ops, Op("wait", outcome))
         /\ IF outcome = "ok"
            THEN lpc' = "scroll" /\ spc' = "init" /\ UNCHANGED listing_result
            ELSE ListReturns(ReturnedList) /\ UNCHANGED spc
    /\ UNCHANGED <<listing, match_link_tags, link_idx, processed_urls, live_matches,
                   past_matches_urls, live_src>>
    /\ UNCHANGED <<last_height, scroll_attempts_no_change, iterations, changes>>
    /\ UNCHANGED <<parseVars, commVars, serverVars>>

\* lines 77-78, 113-117: scroll_page returned, or raised into the handler
ListAfterScroll ==
    /\ lpc = "scroll"
    /\ spc \in {"done", "aborted", "raised"}
    /\ IF spc = "raised"
       THEN ListReturns(ReturnedList)
       ELSE lpc' = "source" /\ UNCHANGED listing_result
    /\ UNCHANGED <<listing, match_link_tags, link_idx, processed_urls, live_matches,
                   past_matches_urls, live_src>>
    /\ UNCHANGED <<parseVars, scrollVars, commVars, ops, serverVars>>

\* lines 80-82, 135-142: the page source is read and the anchors are found
ListSource ==
    /\ lpc = "source"
    /\ \/ \E page \in RenderedListings :
             /\ ops' = Append(ops, Op("source", "ok"))
             /\ match_link_tags' = FindAll(page)
             /\ lpc' = "loop"
             /\ UNCHANGED listing_result
       \/ \E outcome \in Raises :
             /\ ops' = Append(ops, Op("source", outcome))
             /\ ListReturns(ReturnedList)
             /\ UNCHANGED match_link_tags
    /\ UNCHANGED <<listing, link_idx, processed_urls, live_matches,
                   past_matches_urls, live_src>>
    /\ UNCHANGED <<parseVars, scrollVars, commVars, serverVars>>

InitListing ==
    /\ ServerIdle
    /\ ParseIdle
    /\ ScrollIdle
    /\ CommIdle
    /\ listing \in {"live", "past"}
    /\ match_link_tags = <<>>
    /\ link_idx = 1
    /\ processed_urls = {}
    /\ live_matches = <<>>
    /\ past_matches_urls = {}
    /\ live_src = <<>>
    /\ listing_result = <<>>
    /\ lpc = "start"
    /\ ops = <<>>

NextListing ==
    \/ ListNavigate \/ ListWait \/ ScrollPage \/ ListAfterScroll \/ ListSource
    \/ LiveNext \/ PastNext \/ ListNextRaises \/ ListReturn

SpecListing == InitListing /\ [][NextListing]_vars

(***************************************************************************)
(* scrape_match_commentary                                                 *)
(***************************************************************************)
RECURSIVE ParseLoop(_, _)
\* the for loop of parse_commentary_from_soup
ParseLoop(entries, elements) ==
    IF elements = <<>> THEN entries
    ELSE ParseLoop(ParseElement(entries, Head(elements)), Tail(elements))

\* parse_commentary_from_soup as one call
ParseCommentaryFromSoup(elements) ==
    IF elements = <<>> THEN <<>> ELSE ReturnOrder(ParseLoop(<<>>, elements))

\* the panels driver.page_source may hold
RenderedPanels ==
    { <<>>, ScenarioA, <<ScenarioA[3]>>,
      <<Event(Sub(T_6), Sub(T_Six), Sub(T_Bumrah), Absent)>> }

\* variant: the stale-element error is not among the caught click errors
ClickErrors_NoStale == {"intercepted", "timeout"}

\* the exceptions "except (ElementClickInterceptedException,
\* StaleElementReferenceException, TimeoutException)" on line 299 catches
ClickErrors == {"intercepted", "stale", "timeout"}

\* line 267
num_innings_to_process == 1

\* variant: a second inning is tried
MoreInnings_Second(index) == index < 1

\* line 269: range(num_innings_to_process) holds an index after this one
MoreInnings(index) == index + 1 < num_innings_to_process

\* lines 269-275, 302-303: where an iteration of the innings loop goes:
\* if innings_tabs and inning_index < len(innings_tabs)
EnterInning(tabs, index) == IF tabs > index THEN "refind" ELSE "wait_default"

\* the function returns: by line 338 with commentary_data, or by one of the
\* return [] statements
CommReturns(value) ==
    /\ commentary_result' = value
    /\ cpc' = "returned"
    /\ UNCHANGED inning_index

\* lines 321-323: the handler of the iteration continues with the next
\* index of the range; after the last one line 338 returns
SkipInning ==
    IF MoreInnings(inning_index)
    THEN /\ inning_index' = inning_index + 1
         /\ cpc' = EnterInning(innings_tabs, inning_index + 1)
         /\ UNCHANGED commentary_result
    ELSE CommReturns(commentary_data)

\* lines 246-248: navigation
CommNavigate ==
    /\ cpc = "nav"
    /\ \E outcome \in Outcomes :
         /\ ops' = ops \o NavigationOps(outcome)
         /\ IF SafeGet(outcome) = "true"
            THEN cpc' = "wait_any" /\ UNCHANGED <<commentary_result, inning_index>>
            \* "false": line 248; "raise": the handler on lines 333-335
            ELSE CommReturns(<<>>)
    /\ UNCHANGED <<innings_tabs, current_tabs, commentary_data, current_page_source>>
    /\ UNCHANGED <<parseVars, scrollVars, listVars, serverVars>>

\* lines 251-255, 259-264: the wait for the tabs or the container
CommWaitAny ==
    /\ cpc = "wait_any"
    /\ \E outcome \in Outcomes :
         /\ ops' = Append(ops, Op("wait", outcome))
         /\ IF outcome = "ok"
            THEN /\ cpc' = "find_tabs"
                 /\ UNCHANGED <<innings_tabs, commentary_result, inning_index>>
            ELSE IF outcome \in {"timeout", "nosuch"}
            THEN /\ innings_tabs' = 0
                 /\ cpc' = EnterInning(0, inning_index)
                 /\ UNCHANGED <<commentary_result, inning_index>>
            \* the handlers on lines 327-335
            ELSE CommReturns(<<>>) /\ UNCHANGED innings_tabs
    /\ UNCHANGED <<current_tabs, commentary_data, current_page_source>>
    /\ UNCHANGED <<parseVars, scrollVars, listVars, serverVars>>

\* lines 257-264: tab discovery
CommFindTabs ==
    /\ cpc = "find_tabs"
    /\ \/ \E found \in 0..MaxTabs :
             /\ ops' = Append(ops, Op("find", "ok"))
             /\ innings_tabs' = found
             /\ cpc' = EnterInning(found, inning_index)
             /\ UNCHANGED <<commentary_result, inning_index>>
       \/ \E outcome \in Raises :
             /\ ops' = Append(ops, Op("find", outcome))
             /\ IF outcome \in {"timeout", "nosuch"}
                THEN /\ innings_tabs' = 0
                     /\ cpc' = EnterInning(0, inning_index)
                     /\ UNCHANGED <<commentary_result, inning_index>>
                ELSE CommReturns(<<>>) /\ UNCHANGED innings_tabs
    /\ UNCHANGED <<current_tabs, commentary_data, current_page_source>>
    /\ UNCHANGED <<parseVars, scrollVars, listVars, serverVars>>

\* variant: the re-queried list is not tested
TabMissing_Never(index, tabs) == FALSE

\* line 278: if inning_index >= len(current_tabs)
TabMissing(index, tabs) == index >= tabs

\* lines 277-281, 321-325: the re-query before the click
CommRefind ==
    /\ cpc = "refind"
    /\ \/ \E found \in 0..MaxTabs :
             /\ ops' = Append(ops, Op("find", "ok"))
             /\ current_tabs' = found
             /\ IF TabMissing(inning_index, found)
                \* line 280: break, then line 338
                THEN CommReturns(commentary_data)
                ELSE cpc' = "tab_text" /\ UNCHANGED <<commentary_result, inning_index>>
       \/ \E outcome \in Raises :
             /\ ops' = Append(ops, Op("find", outcome))
             \* line 321: the inning is skipped
             /\ SkipInning
             /\ UNCHANGED current_tabs
    /\ UNCHANGED <<innings_tabs, commentary_data, current_page_source>>
    /\ UNCHANGED <<parseVars, scrollVars, listVars, serverVars>>

\* line 282: tab_element.text is read for the test and, when it is not empty,
\* once more for the value
CommTabText ==
    /\ cpc = "tab_text"
    /\ \/ \E reads \in 1..2 :
             /\ ops' = ops \o [k \in 1..reads |-> Op("text", "ok")]
             /\ cpc' = "wait_clickable"
             /\ UNCHANGED <<commentary_result, inning_index>>
       \/ \E failing \in 1..2, outcome \in Raises :
             /\ ops' = ops \o [k \in 1..failing |->
                                  Op("text", IF k = failing THEN outcome ELSE "ok")]
             /\ SkipInning
    /\ UNCHANGED <<innings_tabs, current_tabs, commentary_data, current_page_source>>
    /\ UNCHANGED <<parseVars, scrollVars, listVars, serverVars>>

\* a step of the click phase (lines 284-301): on success go to next; on an
\* error line 299 catches, fall through to reading the page; on any other
\* exception line 321 skips the inning
ClickPhaseStep(name, next) ==
    \E outcome \in Outcomes :
        /\ ops' = Append(ops, Op(name, outcome))
        /\ IF outcome = "ok"
           THEN cpc' = next /\ UNCHANGED <<commentary_result, inning_index>>
           ELSE IF outcome \in ClickErrors
           THEN cpc' = "source" /\ UNCHANGED <<commentary_result, inning_index>>
           ELSE SkipInning

\* line 286
CommWaitClickable ==
    /\ cpc = "wait_clickable"
    /\ ClickPhaseStep("wait", "click")
    /\ UNCHANGED <<innings_tabs, current_tabs, commentary_data, current_page_source>>
    /\ UNCHANGED <<parseVars, scrollVars, listVars, serverVars>>

\* lines 288-289
CommClick ==
    /\ cpc = "click"
    /\ ClickPhaseStep("click", "wait_container")
    /\ UNCHANGED <<innings_tabs, current_tabs, commentary_data, current_page_source>>
    /\ UNCHANGED <<parseVars, scrollVars, listVars, serverVars>>

\* lines 292-293
CommWaitContainer ==
    /\ cpc = "wait_container"
    /\ ClickPhaseStep("wait", "source")
    /\ UNCHANGED <<innings_tabs, current_tabs, commentary_data, current_page_source>>
    /\ UNCHANGED <<parseVars, scrollVars, listVars, serverVars>>

\* lines 302-305: no tabs, wait for the container
CommWaitDefault ==
    /\ cpc = "wait_default"
    /\ \E outcome \in Outcomes :
         /\ ops' = Append(ops, Op("wait", outcome))
         /\ IF outcome = "ok"
            THEN cpc' = "source" /\ UNCHANGED <<commentary_result, inning_index>>
            ELSE SkipInning
    /\ UNCHANGED <<innings_tabs, current_tabs, commentary_data, current_page_source>>
    /\ UNCHANGED <<parseVars, scrollVars, listVars, serverVars>>

\* lines 308-319, 338: the page source is read and parsed
CommSource ==
    /\ cpc = "source"
    /\ \/ \E panel \in RenderedPanels :
             /\ ops' = Append(ops, Op("source", "ok"))
             /\ current_page_source' = panel
             /\ commentary_data' = ParseCommentaryFromSoup(panel)
             /\ CommReturns(commentary_data')
       \/ \E outcome \in Raises :
             /\ ops' = Append(ops, Op("source", outcome))
             /\ SkipInning
             /\ UNCHANGED <<commentary_data, current_page_source>>
    /\ UNCHANGED <<innings_tabs, current_tabs>>
    /\ UNCHANGED <<parseVars, scrollVars, listVars, serverVars>>

InitCommentary ==
    /\ ServerIdle
    /\ ParseIdle
    /\ ScrollIdle
    /\ ListIdle
    /\ innings_tabs = 0
    /\ current_tabs = 0
    /\ commentary_data = <<>>
    /\ inning_index = 0
    /\ current_page_source = <<>>
    /\ commentary_result = <<>>
    /\ cpc = "nav"
    /\ ops = <<>>

NextCommentary ==
    \/ CommNavigate \/ CommWaitAny \/ CommFindTabs \/ CommRefind \/ CommTabText
    \/ CommWaitClickable \/ CommClick \/ CommWaitContainer \/ CommWaitDefault
    \/ CommSource

SpecCommentary == InitCommentary /\ [][NextCommentary]_vars

(***************************************************************************)
(* Properties of the listing loops (SpecListingParse).                     *)
(***************************************************************************)
\* C6: the list a listing scrape returns holds no two entries with the same
\* absolute URL, whatever anchors, duplicates and relative or absolute hrefs
\* the page holds.
C6_NoDuplicateUrls ==
    lpc = "returned" =>
        /\ \A j, k \in 1..Len(listing_result) :
              j # k => listing_result[j] # listing_result[k]
        /\ \A k \in 1..Len(listing_result) : listing_result[k].scheme # ""

\* the live listing returned one URL for a page that links to it twice, once
\* by a rooted and once by an absolute href, both under a live container
C6_Witness ==
    /\ lpc = "returned" /\ listing = "live"
    /\ Len(match_link_tags) = 2
    /\ match_link_tags[1].href # match_link_tags[2].href
    /\ IsLive(match_link_tags[1]) /\ IsLive(match_link_tags[2])
    /\ Len(listing_result) = 1

\* C7: Scenario B, whatever the text of the status--live container is, yields
\* only the first anchor's resolved URL.
C7_ScenarioB ==
    \A text \in {T_RCBvMI, T_LiveNow} :
        (listing = "live" /\ lpc = "returned" /\ match_link_tags = ScenarioB(text)) =>
            listing_result = <<UrlJoin(BASE_URL, ScenarioB(text)[1].href)>>

\* an ancestor that carries a live-status marker: a class matching the
\* pattern, plus the class token live or text containing live
HasLiveAncestor(link_tag) ==
    \E k \in 1..Len(link_tag.ancestors) :
        /\ MatchesClassPattern(link_tag.ancestors[k])
        /\ TrulyLive(link_tag.ancestors[k])

\* C8: every URL of the live result is the resolved href of an anchor with an
\* ancestor carrying a live-status marker, and an anchor with no such ancestor
\* contributes no URL.
C8_LiveIsAFilter ==
    listing = "live" =>
        /\ Len(live_src) = Len(live_matches)
        /\ \A k \in 1..Len(live_matches) :
              /\ live_src[k] \in 1..Len(match_link_tags)
              /\ live_matches[k] = UrlJoin(BASE_URL, match_link_tags[live_src[k]].href)
              /\ HasLiveAncestor(match_link_tags[live_src[k]])
        /\ \A j \in 1..Len(match_link_tags) :
              ~HasLiveAncestor(match_link_tags[j]) =>
                  \A k \in 1..Len(live_src) : live_src[k] # j
        /\ lpc = "returned" => listing_result = live_matches

\* the live listing returned the URL of one anchor and left out another
\* anchor, of another URL, that has no ancestor with a live-status marker
C8_Witness ==
    /\ lpc = "returned" /\ listing = "live"
    /\ Len(match_link_tags) = 2
    /\ Len(listing_result) = 1
    /\ \E j \in 1..2 :
          /\ ~HasLiveAncestor(match_link_tags[j])
          /\ UrlJoin(BASE_URL, match_link_tags[j].href) # listing_result[1]

(***************************************************************************)
(* Properties of scroll_page (SpecScroll).                                 *)
(***************************************************************************)
\* C9 as stated: a loop that stopped on the stall rule after k height changes
\* performed at most k+3 iterations.
C9_AtMostKPlus3 ==
    spc = "done" => iterations <= changes + 3

\* C9 amended: a loop that stopped on the stall rule after k height changes
\* performed at most 3k+3 iterations, the last three of them unchanged reads;
\* while it runs, at most two unchanged reads precede each change.
C9_AtMost3KPlus3 ==
    /\ spc \in {"loop", "done"} =>
          /\ iterations <= 3 * changes + scroll_attempts_no_change
          /\ iterations >= changes + scroll_attempts_no_change
    /\ spc = "loop" => scroll_attempts_no_change < 3
    /\ spc = "done" =>
          /\ scroll_attempts_no_change = 3
          /\ iterations <= 3 * changes + 3

\* the loop stopped after one change and six iterations: the bound is met
C9_Witness ==
    spc = "done" /\ changes = 1 /\ iterations = 6

(***************************************************************************)
(* Properties of scrape_match_commentary (SpecCommentary).                 *)
(***************************************************************************)
NavigationFailed == ops # <<>> /\ ops[1].op = "get" /\ ops[1].out # "ok"

\* C10: when the navigation fails, scrape_match_commentary returns an empty
\* list at once: no exception surfaces and no later session operation is
\* issued.
C10_NavigationFailureReturnsEmpty ==
    /\ cpc # "nav" => ops # <<>> /\ ops[1].op = "get"
    /\ NavigationFailed =>
          /\ cpc = "returned"
          /\ commentary_result = <<>>
          /\ Len(ops) = 1

\* the navigation raised a WebDriverException and the function has returned
C10_Witness ==
    /\ cpc = "returned"
    /\ ops = <<Op("get", "wde")>>
    /\ commentary_result = <<>>

\* the tab click at position k of the session log raised a stale-element error
StaleClickAt(k) == k \in 1..Len(ops) /\ ops[k] = Op("click", "stale")

\* C11: Scenario D. After a tab click that raised a stale-element error the
\* next session operation is the read of the page source; when that read
\* succeeds the function returns the parse of the markup read, and the
\* function never ends by an exception.
C11_StaleClickStillParses ==
    /\ cpc \in {"idle", "nav", "wait_any", "find_tabs", "refind", "tab_text",
                "wait_clickable", "click", "wait_container", "wait_default",
                "source", "returned"}
    /\ \A k \in 1..Len(ops) :
          StaleClickAt(k) =>
              /\ k = Len(ops) => cpc = "source"
              /\ k < Len(ops) =>
                    /\ Len(ops) = k + 1
                    /\ ops[k + 1].op = "source"
                    /\ cpc = "returned"
                    /\ ops[k + 1].out = "ok" =>
                          commentary_result = ParseCommentaryFromSoup(current_page_source)

\* the click raised a stale-element error, the page source was read and the
\* function returned the entries of the panel, which are not none
C11_Witness ==
    /\ cpc = "returned"
    /\ StaleClickAt(Len(ops) - 1)
    /\ ops[Len(ops)] = Op("source", "ok")
    /\ commentary_result # <<>>

(***************************************************************************)
(* Properties of scrape_live_matches and scrape_past_matches from the      *)
(* navigation on (SpecListing).                                            *)
(***************************************************************************)
\* C12: whatever outcome each session operation has, navigation included, the
\* scraper returns a list and no exception leaves it.
C12_NoExceptionLeavesTheScraper ==
    /\ lpc # "raised"
    /\ cpc # "raised"

\* a script of scroll_page failed with a WebDriverException
ScriptFailed == \E k \in 1..Len(ops) : ops[k] = Op("script", "wde")

\* the page source has been asked for
SourceRead == \E k \in 1..Len(ops) : ops[k].op = "source"

\* C13: a listing scrape in which a script of scroll_page failed, at the
\* first height read, at the scroll command or at a re-read, has read the
\* page source by the time it returns.
C13_ScriptFailureStillReadsSource ==
    (lpc = "returned" /\ ScriptFailed) => SourceRead

(***************************************************************************)
(* Further properties of scrape_match_commentary (SpecCommentary).         *)
(***************************************************************************)
\* no session operation failed other than by a timeout
OnlyTimeouts == \A k \in 1..Len(ops) : ops[k].out \in {"ok", "timeout"}

\* C14: when the initial wait for the tabs or the container times out and
\* nothing fails other than by a timeout, the function has read the page
\* source by the time it returns and returns the parse of that markup.
C14_InitialTimeoutStillParses ==
    (/\ cpc = "returned"
     /\ Len(ops) >= 2 /\ ops[2] = Op("wait", "timeout")
     /\ OnlyTimeouts) =>
        /\ ops[Len(ops)] = Op("source", "ok")
        /\ commentary_result = ParseCommentaryFromSoup(current_page_source)

\* C16: the session operation issued just before a tab click is the re-query
\* of the tab elements.
C16_RequeryImmediatelyBeforeClick ==
    \A k \in 1..Len(ops) :
        ops[k].op = "click" => (k > 1 /\ ops[k - 1].op = "find")

(***************************************************************************)
(* Exceptions while reading one element.                                   *)
(***************************************************************************)
\* reading the element does not throw
ReadsCleanly(element) == ~element.raises

\* C17 (SpecParse): the result for a page is the result for the same page
\* with the elements whose reading throws taken out; no entry comes from such
\* an element, and the loop visits every element of the page.
C17_FailingElementSkippedAlone ==
    ppc = "done" =>
        /\ parse_result =
              ParseCommentaryFromSoup(SelectSeq(all_commentary_elements, ReadsCleanly))
        /\ \A k \in 1..Len(entry_src) : ReadsCleanly(SourceOf(k))
        /\ all_commentary_elements # <<>> => elem_idx = Len(all_commentary_elements) + 1

\* a page whose first element throws and whose second element is retained has
\* been parsed: the result is the second element's entry
C17_Witness ==
    /\ ppc = "done"
    /\ Len(all_commentary_elements) = 2
    /\ ~ReadsCleanly(all_commentary_elements[1])
    /\ parse_result = <<FullEntryText(all_commentary_elements[2])>>

\* the URLs of the returned list
ReturnedUrls == { listing_result[k] : k \in 1..Len(listing_result) }

\* C18 (SpecListingParse): a listing that has returned has visited every
\* anchor of the page, and the past listing holds the URL of every anchor
\* whose reading does not throw, also of those after one whose reading throws.
C18_FailingAnchorSkippedAlone ==
    lpc = "returned" =>
        /\ link_idx = Len(match_link_tags) + 1
        /\ listing = "past" =>
              \A j \in 1..Len(match_link_tags) :
                  ReadsCleanly(match_link_tags[j]) =>
                      UrlJoin(BASE_URL, match_link_tags[j].href) \in ReturnedUrls

(***************************************************************************)
(* One invocation of any of the three entry points.                        *)
(***************************************************************************)
InitScrapers == InitListing \/ InitCommentary

NextScrapers == NextListing \/ NextCommentary

SpecScrapers == InitScrapers /\ [][NextScrapers]_vars

\* the invocation is past its first statement
Started == lpc \notin {"idle", "start"} \/ cpc \notin {"idle", "nav"}

\* C19 (SpecScrapers): an invocation that is past its first step has issued
\* the navigation as its first session operation, and no later session
\* operation is a navigation, whether the first one succeeded or failed.
C19_NavigationOnceAndFirst ==
    /\ Started => ops # <<>>
    /\ ops # <<>> =>
          /\ ops[1].op = "get"
          /\ \A k \in 2..Len(ops) : ops[k].op # "get"

\* the navigation of the past listing failed and the function returned with
\* that single navigation in the session log
C19_Witness ==
    /\ listing = "past" /\ lpc = "returned"
    /\ ops = <<Op("get", "timeout")>>

\* the navigation failed, or the wait for a match anchor timed out
NavigationOrWaitFailed ==
    \/ Len(ops) >= 1 /\ ops[1].op = "get" /\ ops[1].out # "ok"
    \/ Len(ops) >= 2 /\ ops[2] = Op("wait", "timeout")

\* C20 (SpecListing): a script of scroll_page or a read of the page source is
\* preceded by a successful navigation and a successful wait; when the
\* navigation fails or the wait times out the function has returned an empty
\* list, with no script and no read of the page source.
C20_ScrollAndSourceOnlyWhenReady ==
    /\ \A k \in 1..Len(ops) :
          ops[k].op \in {"script", "source"} =>
              (k > 2 /\ ops[1] = Op("get", "ok") /\ ops[2] = Op("wait", "ok"))
    /\ NavigationOrWaitFailed =>
          /\ lpc = "returned"
          /\ listing_result = <<>>
          /\ \A k \in 1..Len(ops) : ops[k].op \notin {"script", "source"}

(***************************************************************************)
(* main.py: concurrent requests to the three scraping endpoints of one     *)
(* application process, which holds one driver.  The event loop has one    *)
(* thread; a coroutine keeps it until it awaits or returns.  The endpoint  *)
(* bodies contain no await, the middleware awaits call_next.  A scraper    *)
(* invocation is taken as a series of session operations (at least the     *)
(* navigation) and its return or exception.                                *)
(***************************************************************************)
Paths == <<"/live_matches", "/past_matches", "/scrape_commentary">>

\* the endpoint a request is for
EndpointOf(r) == Paths[((r - 1) % Len(Paths)) + 1]

\* variant: the two listing endpoints are plain functions, which the
\* framework runs in its thread pool
RunsOnEventLoop_OnlyCommentary(path) == path = "/scrape_commentary"

\* main.py lines 301, 321, 346: the endpoints are declared async def, so
\* their bodies run on the event loop's thread
RunsOnEventLoop(path) ==
    path \in {"/live_matches", "/past_matches", "/scrape_commentary"}

\* the event loop's thread runs no coroutine
LoopFree == loop_thread = 0

\* main.py lines 254-258: the middleware runs up to its await of call_next
MiddlewareCallNext(r) ==
    /\ rpc[r] = "ready"
    /\ LoopFree
    /\ rpc' = [rpc EXCEPT ![r] = "awaiting"]
    /\ UNCHANGED <<driver, llm, issued, loop_thread, session_log>>
    /\ UNCHANGED <<parseVars, scrollVars, listVars, commVars, ops>>

\* main.py lines 301, 321, 346: the endpoint's body begins, on the event
\* loop's thread when it is a coroutine
HandlerEnter(r) ==
    /\ rpc[r] = "awaiting"
    /\ IF RunsOnEventLoop(EndpointOf(r))
       THEN LoopFree /\ loop_thread' = r
       ELSE UNCHANGED loop_thread
    /\ rpc' = [rpc EXCEPT ![r] = "entered"]
    /\ UNCHANGED <<driver, llm, issued, session_log>>
    /\ UNCHANGED <<parseVars, scrollVars, listVars, commVars, ops>>

\* main.py lines 303-305, 323-325, 351-355: without the driver (or, for
\* /scrape_commentary, the model) the endpoint raises 503 at once
HandlerCheck(r) ==
    /\ rpc[r] = "entered"
    /\ LET available == driver /\ (EndpointOf(r) = "/scrape_commentary" => llm)
       IN rpc' = [rpc EXCEPT ![r] = IF available THEN "scraping" ELSE "after"]
    /\ UNCHANGED <<driver, llm, issued, loop_thread, session_log>>
    /\ UNCHANGED <<parseVars, scrollVars, listVars, commVars, ops>>

\* main.py lines 309, 329, 366: inside the scraper call, one session
\* operation on the shared driver
SessionOperation(r) ==
    /\ rpc[r] = "scraping"
    /\ issued[r] < MaxSessionOps
    /\ issued' = [issued EXCEPT ![r] = @ + 1]
    /\ session_log' = Append(session_log, [req |-> r, ev |-> "op"])
    /\ UNCHANGED <<driver, llm, rpc, loop_thread>>
    /\ UNCHANGED <<parseVars, scrollVars, listVars, commVars, ops>>

\* main.py lines 309, 329, 366: the scraper call returns or raises, after
\* the navigation at least
ScraperReturns(r) ==
    /\ rpc[r] = "scraping"
    /\ issued[r] >= 1
    /\ rpc' = [rpc EXCEPT ![r] = "after"]
    /\ session_log' = Append(session_log, [req |-> r, ev |-> "return"])
    /\ UNCHANGED <<driver, llm, issued, loop_thread>>
    /\ UNCHANGED <<parseVars, scrollVars, listVars, commVars, ops>>

\* main.py lines 310-318, 330-338, 367-447: the rest of the endpoint's body,
\* its return or its HTTPException
HandlerReturn(r) ==
    /\ rpc[r] = "after"
    /\ rpc' = [rpc EXCEPT ![r] = "responding"]
    /\ loop_thread' = IF loop_thread = r THEN 0 ELSE loop_thread
    /\ UNCHANGED <<driver, llm, issued, session_log>>
    /\ UNCHANGED <<parseVars, scrollVars, listVars, commVars, ops>>

\* main.py lines 259-275: the middleware resumes and records its metrics
MiddlewareRecord(r) ==
    /\ rpc[r] = "responding"
    /\ LoopFree
    /\ rpc' = [rpc EXCEPT ![r] = "done"]
    /\ UNCHANGED <<driver, llm, issued, loop_thread, session_log>>
    /\ UNCHANGED <<parseVars, scrollVars, listVars, commVars, ops>>

\* main.py lines 109-135: the globals after the lifespan's startup, and the
\* requests that have come in
InitServer ==
    /\ ParseIdle
    /\ ScrollIdle
    /\ ListIdle
    /\ CommIdle
    /\ ops = <<>>
    /\ driver \in BOOLEAN
    /\ llm \in BOOLEAN
    /\ rpc = [r \in Requests |-> "ready"]
    /\ issued = [r \in Requests |-> 0]
    /\ loop_thread = 0
    /\ session_log = <<>>

NextServer ==
    \E r \in Requests :
        \/ MiddlewareCallNext(r) \/ HandlerEnter(r) \/ HandlerCheck(r)
        \/ SessionOperation(r) \/ ScraperReturns(r) \/ HandlerReturn(r)
        \/ MiddlewareRecord(r)

SpecServer == InitServer /\ [][NextServer]_vars

\* C15 (SpecServer): of two session operations issued by different scraper
\* invocations, the earlier one's invocation has returned before the later
\* one is issued; at no time are two invocations inside their scraper call.
C15_SessionMutualExclusion ==
    /\ \A i, j \in 1..Len(session_log) :
          (/\ i < j
           /\ session_log[i].ev = "op" /\ session_log[j].ev = "op"
           /\ session_log[i].req # session_log[j].req) =>
              \E k \in (i + 1)..(j - 1) :
                  session_log[k] = [req |-> session_log[i].req, ev |-> "return"]
    /\ \A r, q \in Requests :
          (rpc[r] = "scraping" /\ rpc[q] = "scraping") => r = q

\* one request's scraper call has returned, a second request is inside its
\* scraper call and has used the session, and a third is waiting to be run
C15_Witness ==
    \E a, b, c \in Requests :
        /\ rpc[a] \in {"after", "responding", "done"} /\ issued[a] >= 1
        /\ rpc[b] = "scraping" /\ issued[b] >= 1
        /\ rpc[c] = "awaiting"

(***************************************************************************)
(* Further properties of scroll_page (SpecScroll).                         *)
(***************************************************************************)
\* the last script issued failed
LastScriptFailed == ops # <<>> /\ ops[Len(ops)].op = "script" /\ ops[Len(ops)].out # "ok"

\* an iteration of the loop in which both scripts succeeded
IterationStep == iterations' = iterations + 1 /\ spc' \in {"loop", "done"}

\* C21: the stall counter stays in 0..3; an iteration sets it to 0 when the
\* height read differs from the previous one and to the previous counter
\* plus 1 otherwise; the loop has ended by the stall rule exactly when the
\* counter is 3, and otherwise only after a failed script.
C21_ScrollStateInvariant ==
    /\ [](/\ scroll_attempts_no_change \in 0..3
          /\ spc = "done" <=> scroll_attempts_no_change = 3
          /\ spc \in {"aborted", "raised"} => LastScriptFailed)
    /\ [][IterationStep =>
            /\ changes' # changes => scroll_attempts_no_change' = 0
            /\ changes' = changes =>
                  scroll_attempts_no_change' = scroll_attempts_no_change + 1
            /\ spc' = "done" <=> scroll_attempts_no_change' = 3]_vars

\* two unchanged reads were followed by a changed one: the counter is back
\* at 0 and the loop runs on
C21_Witness ==
    /\ spc = "loop"
    /\ iterations = 3 /\ changes = 1
    /\ scroll_attempts_no_change = 0

\* C22: the loop ends by the stall rule only at an unchanged read that
\* follows two unchanged reads; however many iterations have been done, a
\* page whose height changed in every one of them is still being scrolled.
C22_NoIterationCeiling ==
    /\ [](/\ spc = "done" => iterations >= changes + 3
          /\ (spc \in {"loop", "done"} /\ changes = iterations) => spc = "loop")
    /\ [][(spc = "loop" /\ spc' = "done") =>
            (changes' = changes /\ scroll_attempts_no_change = 2)]_vars

\* the height has changed in every iteration explored and the loop has not
\* ended
C22_Witness ==
    /\ spc = "loop"
    /\ iterations = MaxIters /\ changes = MaxIters

(***************************************************************************)
(* Further properties of parse_commentary_from_soup (SpecParse).           *)
(***************************************************************************)
\* C24: every returned entry is the join, by " - ", of the non-empty ones of
\* overInfo, prefix text and description of its element, no character of a
\* segment removed.
C24_EntryIsTheJoinedSegments ==
    ppc = "done" =>
        LET n == Len(parse_result)
        IN /\ n = Len(entry_src)
           /\ \A k \in 1..n : parse_result[k] = JoinedParts(SourceOf(n + 1 - k))

\* C25: every returned entry is trimmed and at least 6 characters long, and
\* an element that reads cleanly, has a description and a trimmed joined text
\* of exactly 6 characters is in the result.
C25_EntriesAtLeastSixCharacters ==
    ppc = "done" =>
        /\ \A k \in 1..Len(parse_result) :
              /\ Len(parse_result[k]) >= 6
              /\ StripChars(parse_result[k], StripSet) = parse_result[k]
              /\ StripWs(parse_result[k]) = parse_result[k]
        /\ \A j \in 1..Len(all_commentary_elements) :
              LET element == all_commentary_elements[j]
              IN (/\ ~element.raises
                  /\ HasDescription(element)
                  /\ Len(FullEntryText(element)) = 6) =>
                     \E k \in 1..Len(parse_result) :
                         /\ entry_src[Len(parse_result) + 1 - k] = j
                         /\ parse_result[k] = FullEntryText(element)

\* the result holds an entry of exactly 6 characters
C25_Witness ==
    /\ ppc = "done"
    /\ \E k \in 1..Len(parse_result) : Len(parse_result[k]) = 6

(***************************************************************************)
(* The tab-click phase and the innings loop of scrape_match_commentary     *)
(* (SpecCommentary).                                                       *)
(***************************************************************************)
\* how many session operations of a kind were issued
OpCount(name) == Cardinality({k \in 1..Len(ops) : ops[k].op = name})

\* the tabs were discovered and re-queried: the operations from the fifth on
\* belong to the tab-click phase
Requeried ==
    /\ Len(ops) >= 4
    /\ ops[3] = Op("find", "ok") /\ ops[4] = Op("find", "ok")

\* C23: when a click-intercepted or stale-element error was raised by a
\* session operation of the tab-click phase (label read, wait for a
\* clickable tab, click, wait for the container), the function has read the
\* page source once by the time it returns, and has clicked at most once.
C23_ClickPhaseErrorStillParsesOnce ==
    (/\ cpc = "returned"
     /\ Requeried
     /\ \E k \in 5..Len(ops) :
           /\ ops[k].op \in {"text", "wait", "click"}
           /\ ops[k].out \in {"intercepted", "stale"}) =>
        /\ OpCount("source") = 1
        /\ OpCount("click") <= 1

\* C26: whatever the number of tabs and whatever fails, an invocation issues
\* at most one click, on the tab of index 0, reads the page source at most
\* once (the parser runs on a successful read only), and never leaves the
\* first iteration of the innings loop.
C26_SingleInning ==
    /\ OpCount("click") <= 1
    /\ OpCount("source") <= 1
    /\ inning_index = 0
    /\ cpc \in {"click", "wait_container"} => current_tabs > 0
    /\ OpCount("click") = 1 => Requeried

\* with two tabs on the page the click failed with an error no handler of
\* the click phase catches; the function returned after that one click,
\* without a second inning
C26_Witness ==
    /\ cpc = "returned"
    /\ innings_tabs = 2
    /\ ops[Len(ops)] = Op("click", "wde")
    /\ OpCount("click") = 1 /\ OpCount("source") = 0

\* C28: when tabs were found at discovery and the re-query returns no
\* element at the target index, the function has returned an empty list and
\* the re-query is its last session operation: no click, no read of the page
\* source.
C28_VanishedTabsReturnEmpty ==
    (Requeried /\ innings_tabs > 0 /\ current_tabs <= inning_index) =>
        /\ cpc = "returned"
        /\ commentary_result = <<>>
        /\ Len(ops) = 4
        /\ OpCount("click") = 0 /\ OpCount("source") = 0

\* two tabs were discovered, the re-query found none and the function has
\* returned
C28_Witness ==
    /\ cpc = "returned"
    /\ innings_tabs = 2 /\ current_tabs = 0
    /\ Len(ops) = 4 /\ Requeried

(***************************************************************************)
(* Further properties of the live listing loop (SpecListingParse).         *)
(***************************************************************************)
\* the resolved URL of the anchor at position j
UrlAt(j) == UrlJoin(BASE_URL, match_link_tags[j].href)

\* no anchor before position j resolves to the URL of the anchor at j
FirstOfItsUrl(j) == \A i \in 1..(j - 1) : UrlAt(i) # UrlAt(j)

\* C27: in the live listing every returned URL comes from the first anchor
\* of that URL in document order, and a URL whose first anchor is not taken
\* as live is absent from the result, whatever later anchors of the same URL
\* are.
C27_FirstAnchorDecides ==
    listing = "live" =>
        /\ \A k \in 1..Len(live_src) : FirstOfItsUrl(live_src[k])
        /\ \A j \in 1..Len(match_link_tags) :
              (j < link_idx /\ FirstOfItsUrl(j) /\ ~IsLive(match_link_tags[j])) =>
                  \A k \in 1..Len(live_matches) : live_matches[k] # UrlAt(j)
        /\ lpc = "returned" => listing_result = live_matches

\* the page holds two anchors of one URL, the first not live and the second
\* inside a live container; the live listing returned nothing
C27_Witness ==
    /\ listing = "live" /\ lpc = "returned"
    /\ Len(match_link_tags) = 2
    /\ UrlAt(1) = UrlAt(2)
    /\ ~IsLive(match_link_tags[1]) /\ IsLive(match_link_tags[2])
    /\ link_idx = 3
    /\ listing_result = <<>>

====
